---- MODULE Spec2Model ----
(***************************************************************************)
(* The supervisor / worker loop of the IT department graph:               *)
(*   src/agents/supervisor.py  supervisor_node, _parse_json_response,     *)
(*                             route_after_supervisor, record_agent_output*)
(*   src/graph.py              build_graph, create_initial_state          *)
(*   src/state.py              AgentState (and its operator.add channels) *)
(*   src/agents/<worker>.py    the five worker nodes                      *)
(*                                                                         *)
(* Text is modelled as a sequence of atoms.  An atom of an agent name is  *)
(* a word or a punctuation mark ("developer", "|", " ", "agent:"); an atom *)
(* of a model response is a piece of the response (prose, a code fence, a  *)
(* brace block, a JSON value).  Python values read from the parsed JSON    *)
(* are records [t, s]: t the type, s the text when t = "str".              *)
(***************************************************************************)
EXTENDS Integers, Sequences, FiniteSets, TLC

VARIABLES
    node,                 \* the node the graph runs next; "END"; "RAISED" = the run raised to its caller
    task,                 \* AgentState.task
    plan,                 \* AgentState.plan (a Python value)
    next_agent,           \* AgentState.next_agent
    current_instruction,  \* AgentState.current_instruction (a Python value)
    iteration,            \* AgentState.iteration
    routing_history,      \* AgentState.routing_history
    agent_outputs,        \* AgentState.agent_outputs (operator.add channel)
    artifacts,            \* AgentState.artifacts
    messages,             \* AgentState.messages (operator.add channel), as its length
    calls,                \* history: number of supervisor_node invocations so far
    last,                 \* history: the step taken last
    exc,                  \* history: the exception that left graph.stream, or "none"
    interrupts,           \* interrupt_before of the compiled graph that drives the run
    human_approved,       \* AgentState.human_approved (a Python value)
    human_feedback,       \* AgentState.human_feedback (a Python value)
    paused,               \* history: <<the snapshot the MemorySaver of the left graph holds>>
    ALLOWED_BASE_PATH,    \* tools.filesystem.ALLOWED_BASE_PATH, one per process
    runs                  \* the runs of the process: position, repo_path, tool calls

run_vars == <<node, task, plan, next_agent, current_instruction, iteration,
              routing_history, agent_outputs, artifacts, messages, calls, last, exc>>

hitl_vars == <<interrupts, human_approved, human_feedback, paused>>

process_vars == <<ALLOWED_BASE_PATH, runs>>

vars == <<run_vars, hitl_vars, process_vars>>

(***************************************************************************)
(* Bounds and constants                                                    *)
(***************************************************************************)

\* The ceiling, int(os.environ.get("ITDEPT_MAX_ITERATIONS", "12")): the model
\* runs with a small configured value.
MAX_ITERATIONS == 2

\* Supervisor invocations the model explores: one more than the MAX_ITERATIONS + 1
\* that a counter increased by every invocation allows.
MaxCalls == MAX_ITERATIONS + 2

\* _format_routing_history renders history[-8:]
HistoryWindow == 8

Workers == {"developer", "qa", "reviewer", "devops", "docs"}

VALID_AGENTS == {"developer", "qa", "reviewer", "devops", "docs", "FINISH"}

(***************************************************************************)
(* Python values                                                           *)
(***************************************************************************)

JAbsent == [t |-> "absent", s |-> <<>>]   \* the key is not in the dict
JNull   == [t |-> "null",   s |-> <<>>]   \* None
JNum    == [t |-> "num",    s |-> <<"7">>]   \* a non-zero number
JStr(s) == [t |-> "str",    s |-> s]
JBool(b) == [t |-> "bool",   s |-> <<IF b THEN "True" ELSE "False">>]

\* bool(v)
Truthy(v) == CASE v.t = "str" -> v.s # <<>>
               [] v.t = "num" -> TRUE
               [] OTHER       -> FALSE

\* str(v)
StrOf(v) == CASE v.t = "str"  -> v.s
              [] v.t = "null" -> <<"None">>
              [] OTHER        -> v.s

\* dict.get(key, default)
Get(data, key, default) == IF data[key].t = "absent" THEN default ELSE data[key]

\* v[:80] works on a str and raises TypeError on None or a number
Sliceable(v) == v.t = "str"

(***************************************************************************)
(* Text helpers                                                            *)
(***************************************************************************)

Min(S) == CHOOSE x \in S : \A y \in S : x <= y
Max(S) == CHOOSE x \in S : \A y \in S : x >= y

RECURSIVE LStrip(_, _)
LStrip(s, C) == IF s # <<>> /\ Head(s) \in C THEN LStrip(Tail(s), C) ELSE s

RECURSIVE RStrip(_, _)
RStrip(s, C) ==
    IF s # <<>> /\ s[Len(s)] \in C THEN RStrip(SubSeq(s, 1, Len(s) - 1), C) ELSE s

\* str.strip(chars)
Strip(s, C) == RStrip(LStrip(s, C), C)

Space == {" "}

\* str.lower() of one atom
LowerAtom(c) == CASE c = "FINISH"    -> "finish"
                  [] c = "Finish"    -> "finish"
                  [] c = "Developer" -> "developer"
                  [] c = "QA"        -> "qa"
                  [] c = "Agent:"    -> "agent:"
                  [] OTHER           -> c

Lower(s) == [i \in 1..Len(s) |-> LowerAtom(s[i])]

\* s.split("|")[0]
BeforePipe(s) ==
    LET P == {i \in 1..Len(s) : s[i] = "|"}
    IN  IF P = {} THEN s ELSE SubSeq(s, 1, Min(P) - 1)

\* if agent.lower().startswith(prefix): agent = agent[len(prefix):].strip()
StripPrefix(s, p) ==
    IF s # <<>> /\ LowerAtom(s[1]) = p THEN Strip(Tail(s), Space) ELSE s

\* for prefix in ("agente:", "agent:", "proximo:", "next:")
StripPrefixes(s) ==
    StripPrefix(StripPrefix(StripPrefix(StripPrefix(s, "agente:"), "agent:"),
                            "proximo:"), "next:")

(***************************************************************************)
(* _parse_json_response: sanitising next_agent                             *)
(***************************************************************************)

\* next((v for v in VALID_AGENTS if v in agent.lower()), None): every name the
\* generator can yield first.  VALID_AGENTS is a set of str, whose iteration
\* order changes with the interpreter's hash seed.
PartialMatches(a) == {v \in VALID_AGENTS : \E i \in 1..Len(a) : LowerAtom(a[i]) = v}

\* A plausible slip: an unmatched value is passed through instead of "FINISH".
sanitize_next_agent_passthrough(v) ==
    LET a0 == Strip(Strip(Strip(StrOf(v), Space), {"\""}), {"'"})
        a1 == IF \E i \in 1..Len(a0) : a0[i] = "|"
              THEN Strip(BeforePipe(a0), Space) ELSE a0
        a2 == StripPrefixes(a1)
        a3 == IF Lower(a2) = <<"finish">> THEN <<"FINISH">> ELSE a2
    IN  IF Len(a3) = 1 /\ a3[1] \in VALID_AGENTS THEN {a3[1]}
        ELSE IF PartialMatches(a3) # {} THEN PartialMatches(a3)
        ELSE IF a3 = <<>> THEN {""} ELSE {a3[1]}

\* The values the sanitised next_agent can take for the raw value v.
sanitize_next_agent(v) ==
    LET a0 == Strip(Strip(Strip(StrOf(v), Space), {"\""}), {"'"})
        a1 == IF \E i \in 1..Len(a0) : a0[i] = "|"
              THEN Strip(BeforePipe(a0), Space) ELSE a0
        a2 == StripPrefixes(a1)
        a3 == IF Lower(a2) = <<"finish">> THEN <<"FINISH">> ELSE a2
    IN  IF Len(a3) = 1 /\ a3[1] \in VALID_AGENTS THEN {a3[1]}
        ELSE IF PartialMatches(a3) # {} THEN PartialMatches(a3)
        ELSE {"FINISH"}

(***************************************************************************)
(* _parse_json_response: locating and loading the JSON                     *)
(***************************************************************************)

Keys == {"next_agent", "instruction", "reason", "plan_update",
         "plan", "first_agent", "first_instruction"}

NoFields == [k \in Keys |-> JAbsent]

\* Atoms of a response: "w" prose, "fj" a ```json fence, "f" a ``` fence,
\* "obj" a flat {...} block that is a JSON object (d its members), "bad" a flat
\* {...} block that is not JSON, "list" / "num" / "null" JSON text of that type.
Tok(k) == [k |-> k, d |-> NoFields]
Obj(d) == [k |-> "obj", d |-> d]

Fence(tok) == tok.k \in {"fj", "f"}
Brace(tok) == tok.k \in {"obj", "bad"}

\* re.search(r'```json\s*(.*?)\s*```'): openers that have a closing fence
JsonFenceAt(raw) ==
    {i \in 1..Len(raw) : raw[i].k = "fj" /\ \E j \in (i+1)..Len(raw) : Fence(raw[j])}

\* re.search(r'```\s*(.*?)\s*```')
AnyFenceAt(raw) ==
    {i \in 1..Len(raw) : Fence(raw[i]) /\ \E j \in (i+1)..Len(raw) : Fence(raw[j])}

\* group(1): the text up to the nearest closing fence
FenceBody(raw, i) ==
    LET j == Min({x \in (i+1)..Len(raw) : Fence(raw[x])})
    IN  SubSeq(raw, i + 1, j - 1)

BraceAt(raw) == {i \in 1..Len(raw) : Brace(raw[i])}

\* Strategies 1 to 3, an if / else chain: the first pattern that matches
\* decides `clean`, whether or not its text will load.
ExtractClean(raw) ==
    IF JsonFenceAt(raw) # {} THEN FenceBody(raw, Min(JsonFenceAt(raw)))
    ELSE IF AnyFenceAt(raw) # {} THEN FenceBody(raw, Min(AnyFenceAt(raw)))
    ELSE IF BraceAt(raw) # {} THEN <<raw[Min(BraceAt(raw))]>>
    ELSE raw

\* json.loads(text) succeeds iff text is exactly one JSON value
Loads(text) == Len(text) = 1 /\ text[1].k \in {"obj", "list", "num", "null"}

\* re.search(r'\{.*\}', clean): from the first "{" to the last "}"
GreedyText(clean) ==
    IF BraceAt(clean) = {} THEN <<>>
    ELSE SubSeq(clean, Min(BraceAt(clean)), Max(BraceAt(clean)))

\* The value `data` holds after the try / except: [k |-> "none"] when nothing loaded.
LoadData(raw) ==
    LET clean == ExtractClean(raw)
    IN  IF Loads(clean) THEN clean[1]
        ELSE IF Loads(GreedyText(clean)) THEN GreedyText(clean)[1]
        ELSE Tok("none")

\* The outcomes of _parse_json_response(raw): it raises ValueError, raises
\* AttributeError (data.get on a list or a number), or returns the dict.
parse_json_response(raw) ==
    LET data == LoadData(raw)
    IN  IF data.k \in {"none", "null"} THEN {[kind |-> "ValueError", data |-> NoFields]}
        ELSE IF data.k # "obj" THEN {[kind |-> "AttributeError", data |-> NoFields]}
        ELSE {[kind |-> "ok", data |-> [data.d EXCEPT !.next_agent = JStr(<<a>>)]] :
                a \in sanitize_next_agent(Get(data.d, "next_agent", JStr(<<>>)))}

(***************************************************************************)
(* route_after_supervisor and the graph's conditional edge                 *)
(***************************************************************************)

\* A plausible slip: the ceiling is not checked.
route_after_supervisor_no_ceiling(agent, iter) ==
    IF agent = "FINISH" THEN "END"
    ELSE IF agent \notin Workers THEN "END"
    ELSE agent

\* A plausible slip: the ceiling is compared one too high.
route_after_supervisor_late_ceiling(agent, iter) ==
    IF iter > MAX_ITERATIONS + 1 THEN "END"
    ELSE IF agent = "FINISH" THEN "END"
    ELSE IF agent \notin Workers THEN "END"
    ELSE agent

\* A plausible slip: a FINISH decision is routed back to the supervisor.
route_after_supervisor_requeue(agent, iter) ==
    IF iter > MAX_ITERATIONS THEN "END"
    ELSE IF agent = "FINISH" THEN "supervisor"
    ELSE IF agent \notin Workers THEN "END"
    ELSE agent

route_after_supervisor(agent, iter) ==
    IF iter > MAX_ITERATIONS THEN "END"
    ELSE IF agent = "FINISH" THEN "END"
    ELSE IF agent \notin Workers THEN "END"
    ELSE agent

(***************************************************************************)
(* The responses the completion call can return                            *)
(***************************************************************************)

Reason == JStr(<<"reason">>)

\* A routing decision object as the model writes it
Decision(agent, reason, plan_update) ==
    [NoFields EXCEPT !.next_agent = agent, !.instruction = JStr(<<"instruction">>),
                     !.reason = reason, !.plan_update = plan_update]

\* Raw next_agent values: exact names, and the malformed shapes the parser's
\* comments list
RawAgents ==
    { JStr(<<w>>) : w \in VALID_AGENTS } \cup
    { JStr(<<"finish">>), JStr(<<"Developer">>), JStr(<<>>),
      JStr(<<"developer", "_node">>),
      JStr(<<"developer", " ", "|", " ", "qa">>),
      JStr(<<"Agent:", " ", "qa">>),
      JStr(<<"next:", "reviewer">>),
      JStr(<<" ", "\"", "docs", "\"">>),
      JStr(<<"developer", "_or_", "qa">>),
      JNull, JNum, JAbsent }

RouteObjects ==
    { Decision(a, Reason, JNull) : a \in RawAgents } \cup
    { Decision(JStr(<<"developer">>), Reason, JStr(<<"P2">>)),
      Decision(JStr(<<"qa">>), Reason, JStr(<<>>)),
      Decision(JStr(<<"qa">>), JNull, JAbsent),
      Decision(JStr(<<"FINISH">>), JAbsent, JAbsent),
      Decision(JStr(<<"manager">>), JStr(<<"ask the manager">>), JNull),
      NoFields }

\* A planning object as the model writes it
Planning(first_agent, the_plan, first_instruction) ==
    [NoFields EXCEPT !.first_agent = first_agent, !.plan = the_plan,
                     !.first_instruction = first_instruction]

PlanObjects ==
    { Planning(JStr(<<w>>), JStr(<<"P1">>), JStr(<<"instruction">>)) : w \in VALID_AGENTS } \cup
    { Planning(JStr(<<"finish">>), JStr(<<"P1">>), JStr(<<"instruction">>)),
      Planning(JStr(<<"manager">>), JStr(<<"P1">>), JStr(<<"instruction">>)),
      Planning(JStr(<<" ", "qa", " ", "|", " ", "docs">>), JStr(<<"P1">>),
               JStr(<<"instruction">>)),
      Planning(JStr(<<"qa", "_node">>), JStr(<<"P1">>), JStr(<<"instruction">>)),
      Planning(JAbsent, JStr(<<"P1">>), JStr(<<"instruction">>)),
      Planning(JStr(<<"developer">>), JStr(<<>>), JStr(<<"instruction">>)),
      Planning(JStr(<<"developer">>), JAbsent, JStr(<<"instruction">>)) }

\* The response texts around an object o
Wrapped(o) ==
    { <<Tok("fj"), Obj(o), Tok("f")>>,
      <<Tok("w"), Tok("f"), Obj(o), Tok("f")>>,
      <<Tok("w"), Obj(o), Tok("w")>>,
      <<Tok("fj"), Tok("w"), Obj(o), Tok("f")>>,
      <<Tok("bad"), Obj(o)>>,
      <<Tok("fj"), Tok("w"), Tok("f"), Obj(o)>> }

\* Response texts that hold no JSON object
NoObject ==
    { <<>>, <<Tok("w")>>, <<Tok("bad")>>, <<Tok("fj"), Tok("w"), Tok("f")>>,
      <<Tok("null")>>, <<Tok("list")>>, <<Tok("num")>>,
      <<Tok("fj"), Tok("list"), Tok("f")>> }

RouteResponses ==
    NoObject \cup { <<Obj(o)>> : o \in RouteObjects }
             \cup Wrapped(Decision(JStr(<<"qa">>), Reason, JNull))

PlanResponses ==
    NoObject \cup { <<Obj(o)>> : o \in PlanObjects }
             \cup Wrapped(Planning(JStr(<<"qa">>), JStr(<<"P1">>), JStr(<<"instruction">>)))
(***************************************************************************)
(* record_agent_output and the worker nodes                                *)
(***************************************************************************)

\* operator.add, the reducer of the agent_outputs and messages channels: the
\* value a node returns for the key is added to the value the channel holds.
operator_add(held, returned) == held \o returned

\* A plausible slip: the artifacts of the step replace the mapping.
Update_replace(d, new) == new

\* A plausible slip: the merge keeps the earlier value on collision.
Update_keeps_old(d, new) == d @@ new

\* dict.update
Update(d, new) == new @@ d

\* The updates record_agent_output returns (messages as a length)
record_agent_output(agent_name, output, status, arts) ==
    LET entry == [agent |-> agent_name, output |-> output, status |-> status,
                  iteration |-> iteration]
    IN  [agent_outputs |-> agent_outputs \o <<entry>>,
         artifacts     |-> IF arts # <<>> THEN Update(artifacts, arts) ELSE artifacts,
         messages      |-> messages + 1]

\* What a final report holds of what _extract_artifacts looks for: the file
\* names in backquotes, a conventional commit line, a word such as write_file
ReportFiles == {<<>>, <<"a.py">>, <<"b.py">>}
ReportCommits == {"", "fix(a): x", "feat(b): y"}
Reports == [text : {"report"}, files : ReportFiles, commit : ReportCommits,
            changed : BOOLEAN]

\* f"... Erro no Developer Agent: {type(e).__name__}: {e}"
ErrorOutput == [text |-> "error message", files |-> <<>>, commit |-> "", changed |-> FALSE]

\* _extract_artifacts: a key for each thing the report holds
extract_artifacts(report) ==
    LET found == {k \in {"files_changed", "commit_message", "code_changed"} :
                    \/ k = "files_changed" /\ report.files # <<>>
                    \/ k = "commit_message" /\ report.commit # ""
                    \/ k = "code_changed" /\ report.changed}
    IN  IF found = {} THEN <<>>
        ELSE [k \in found |-> CASE k = "files_changed"  -> report.files
                                 [] k = "commit_message" -> report.commit
                                 [] k = "code_changed"   -> TRUE]

\* The outcome of a worker whose agent returns the report r
Returned(r) ==
    [raised |-> FALSE, output |-> r, status |-> "success",
     artifacts |-> extract_artifacts(r)]

\* The outcome of a worker whose agent raises
AgentRaised ==
    [raised |-> TRUE, output |-> ErrorOutput, status |-> "error", artifacts |-> <<>>]

\* f"... Agente '{module}' ainda nao implementado. ..."
StubOutput == [text |-> "not implemented", files |-> <<>>, commit |-> "", changed |-> FALSE]

\* What _stub passes to record_agent_output: status="warning", no artifacts
NotImplemented ==
    [raised |-> FALSE, output |-> StubOutput, status |-> "warning", artifacts |-> <<>>]

\* What the worker's ReAct agent does: it raises, or it returns a report from
\* which _infer_status and _extract_artifacts read a status and artifacts.
WorkerOutcomes ==
    { Returned([text |-> "report", files |-> <<"a.py">>, commit |-> "", changed |-> FALSE]),
      AgentRaised }

\* The outcomes of a worker whose agent returns any of the reports
ReportOutcomes == { Returned(r) : r \in Reports }

\* A plausible slip: the worker consumes the instruction it was given.
worker_node_clears_instruction(o) ==
    /\ node \in Workers
    /\ LET updates == IF o.raised
                      THEN record_agent_output(node, ErrorOutput, "error", <<>>)
                      ELSE record_agent_output(node, o.output, o.status, o.artifacts)
       IN  /\ agent_outputs' = operator_add(agent_outputs, updates.agent_outputs)
           /\ artifacts' = updates.artifacts
           /\ messages' = messages + updates.messages
    /\ node' = "supervisor"
    /\ last' = "worker"
    /\ current_instruction' = JStr(<<>>)
    /\ UNCHANGED <<task, plan, next_agent, iteration, routing_history, calls, exc>>
    /\ UNCHANGED <<hitl_vars, process_vars>>

\* developer_node, qa_node, reviewer_node, devops_node, docs_node: the same
\* try / except around the agent, then return {**state, **updates}
worker_node(o) ==
    /\ node \in Workers
    /\ LET updates == IF o.raised
                      THEN record_agent_output(node, ErrorOutput, "error", <<>>)
                      ELSE record_agent_output(node, o.output, o.status, o.artifacts)
       IN  /\ agent_outputs' = operator_add(agent_outputs, updates.agent_outputs)
           /\ artifacts' = updates.artifacts
           /\ messages' = messages + updates.messages
    /\ node' = "supervisor"
    /\ last' = "worker"
    /\ UNCHANGED <<task, plan, next_agent, current_instruction, iteration,
                   routing_history, calls, exc>>
    /\ UNCHANGED <<hitl_vars, process_vars>>

\* _stub, the node _import_agent returns when the worker's module cannot be
\* imported: record_agent_output(state, module, msg, status="warning"), then
\* return {**state, **updates}
stub_node ==
    /\ node \in Workers
    /\ LET updates == record_agent_output(node, NotImplemented.output,
                                          NotImplemented.status, NotImplemented.artifacts)
       IN  /\ agent_outputs' = operator_add(agent_outputs, updates.agent_outputs)
           /\ artifacts' = updates.artifacts
           /\ messages' = messages + updates.messages
    /\ node' = "supervisor"
    /\ last' = "worker"
    /\ UNCHANGED <<task, plan, next_agent, current_instruction, iteration,
                   routing_history, calls, exc>>
    /\ UNCHANGED <<hitl_vars, process_vars>>

(***************************************************************************)
(* supervisor_node                                                         *)
(***************************************************************************)

\* A plausible slip: the supervisor also plans anew after a failed worker.
PlanningBranch_on_error ==
    \/ iteration = 0
    \/ ~Truthy(plan)
    \/ (agent_outputs # <<>> /\ agent_outputs[Len(agent_outputs)].status = "error")

\* if iteration == 0 or not plan
PlanningBranch == iteration = 0 \/ ~Truthy(plan)

\* The exception leaves supervisor_node and graph.stream: nothing is written.
Raise(exception) ==
    /\ node' = "RAISED"
    /\ last' = "raised"
    /\ exc' = exception
    /\ calls' = calls + 1
    /\ UNCHANGED <<task, plan, next_agent, current_instruction, iteration,
                   routing_history, agent_outputs, artifacts, messages>>
    /\ UNCHANGED <<hitl_vars, process_vars>>

\* make_llm(...) or llm.invoke(...) raises: neither call is inside a try
supervisor_llm_raises ==
    /\ node = "supervisor"
    /\ calls < MaxCalls
    /\ Raise("completion call")

\* A plausible slip: FINISH is normalised as in the routing branch and kept.
sanitize_first_agent_keeps_finish(v) ==
    LET a0 == Strip(StrOf(v), Space)
        a1 == IF \E i \in 1..Len(a0) : a0[i] = "|"
              THEN Strip(BeforePipe(a0), Space) ELSE a0
        a2 == IF Lower(a1) = <<"finish">> THEN <<"FINISH">> ELSE a1
    IN  IF Len(a2) = 1 /\ a2[1] \in VALID_AGENTS THEN a2[1] ELSE "developer"

\* first_agent as the planning branch sanitises it
sanitize_first_agent(v) ==
    LET a0 == Strip(StrOf(v), Space)
        a1 == IF \E i \in 1..Len(a0) : a0[i] = "|"
              THEN Strip(BeforePipe(a0), Space) ELSE a0
        a2 == IF Lower(a1) = <<"finish">> THEN <<"developer">> ELSE a1
    IN  IF Len(a2) = 1 /\ a2[1] \in Workers THEN a2[1] ELSE "developer"

\* The dict the planning branch uses when _parse_json_response raises ValueError
PlanningFallback ==
    Planning(JStr(<<"developer">>), JStr(<<"Executar task: ", "task">>), task)

\* Phase 1 of supervisor_node on the response raw, then the conditional edge
supervisor_planning(raw) ==
    /\ node = "supervisor"
    /\ calls < MaxCalls
    /\ PlanningBranch
    /\ \E r \in parse_json_response(raw) :
         IF r.kind = "AttributeError" THEN Raise("AttributeError")
         ELSE LET data  == IF r.kind = "ValueError" THEN PlanningFallback ELSE r.data
                  first == sanitize_first_agent(
                               Get(data, "first_agent", JStr(<<"developer">>)))
              IN  /\ plan' = Get(data, "plan", JStr(<<>>))
                  /\ next_agent' = first
                  /\ current_instruction' = Get(data, "first_instruction", task)
                  /\ iteration' = 1
                  /\ routing_history' = <<>>
                  /\ agent_outputs' = operator_add(agent_outputs, agent_outputs)
                  /\ messages' = messages + (messages + 1)
                  /\ node' = route_after_supervisor(first, 1)
                  /\ last' = "planning"
                  /\ calls' = calls + 1
                  /\ UNCHANGED <<task, artifacts, exc, hitl_vars, process_vars>>

\* h['reason'][:80] over history[-8:] in _format_routing_history
RoutingPromptRaises ==
    \E i \in 1..Len(routing_history) :
        /\ i > Len(routing_history) - HistoryWindow
        /\ ~Sliceable(routing_history[i].reason)

\* Building the routing prompt raises TypeError before the model is called
supervisor_prompt_raises ==
    /\ node = "supervisor"
    /\ calls < MaxCalls
    /\ ~PlanningBranch
    /\ RoutingPromptRaises
    /\ Raise("TypeError")

\* A plausible slip: the entry records the counter after the increment.
routing_entry_incremented(agent, reason) ==
    [iteration |-> iteration + 1, agent |-> agent, reason |-> reason]

\* The entry the routing branch appends to routing_history
routing_entry(agent, reason) ==
    [iteration |-> iteration, agent |-> agent, reason |-> reason]

\* A plausible slip: `if plan_update is not None` instead of truthiness.
updated_plan_not_none(plan_update) ==
    IF plan_update.t \notin {"null", "absent"} THEN plan_update ELSE plan

\* A plausible slip: the plan is assigned whatever the decision holds.
updated_plan_assigned(plan_update) == plan_update

\* updated_plan = plan_update if plan_update else plan
updated_plan(plan_update) == IF Truthy(plan_update) THEN plan_update ELSE plan

\* The dict the routing branch uses when _parse_json_response raises ValueError
ParseErrorReason == JStr(<<"Erro ao parsear resposta do supervisor">>)

\* A plausible slip: the fallback retries with a worker instead of stopping.
RoutingFallback_developer ==
    [NoFields EXCEPT !.next_agent = JStr(<<"developer">>), !.instruction = JStr(<<>>),
                     !.reason = ParseErrorReason, !.plan_update = JNull]

RoutingFallback ==
    [NoFields EXCEPT !.next_agent = JStr(<<"FINISH">>), !.instruction = JStr(<<>>),
                     !.reason = ParseErrorReason, !.plan_update = JNull]

\* A plausible slip: the routing branch keeps only the newest entry.
supervisor_routing_overwrite(raw) ==
    /\ node = "supervisor"
    /\ calls < MaxCalls
    /\ ~PlanningBranch
    /\ ~RoutingPromptRaises
    /\ \E r \in parse_json_response(raw) :
         IF r.kind = "AttributeError" THEN Raise("AttributeError")
         ELSE LET data        == IF r.kind = "ValueError" THEN RoutingFallback ELSE r.data
                  agent       == Get(data, "next_agent", JStr(<<"FINISH">>)).s[1]
                  plan_update == Get(data, "plan_update", JNull)
              IN  /\ next_agent' = agent
                  /\ current_instruction' = Get(data, "instruction", JStr(<<>>))
                  /\ routing_history' =
                        <<routing_entry(agent, Get(data, "reason", JStr(<<>>)))>>
                  /\ plan' = updated_plan(plan_update)
                  /\ iteration' = iteration + 1
                  /\ agent_outputs' = operator_add(agent_outputs, agent_outputs)
                  /\ messages' = messages + (messages + 1)
                  /\ node' = route_after_supervisor(agent, iteration + 1)
                  /\ last' = "routing"
                  /\ calls' = calls + 1
                  /\ UNCHANGED <<task, artifacts, exc, hitl_vars, process_vars>>

\* Phase 2 of supervisor_node on the response raw, then the conditional edge
supervisor_routing(raw) ==
    /\ node = "supervisor"
    /\ calls < MaxCalls
    /\ ~PlanningBranch
    /\ ~RoutingPromptRaises
    /\ \E r \in parse_json_response(raw) :
         IF r.kind = "AttributeError" THEN Raise("AttributeError")
         ELSE LET data        == IF r.kind = "ValueError" THEN RoutingFallback ELSE r.data
                  agent       == Get(data, "next_agent", JStr(<<"FINISH">>)).s[1]
                  plan_update == Get(data, "plan_update", JNull)
              IN  /\ next_agent' = agent
                  /\ current_instruction' = Get(data, "instruction", JStr(<<>>))
                  /\ routing_history' = routing_history \o
                        <<routing_entry(agent, Get(data, "reason", JStr(<<>>)))>>
                  /\ plan' = updated_plan(plan_update)
                  /\ iteration' = iteration + 1
                  /\ agent_outputs' = operator_add(agent_outputs, agent_outputs)
                  /\ messages' = messages + (messages + 1)
                  /\ node' = route_after_supervisor(agent, iteration + 1)
                  /\ last' = "routing"
                  /\ calls' = calls + 1
                  /\ UNCHANGED <<task, artifacts, exc, hitl_vars, process_vars>>

(***************************************************************************)
(* The runs of one process and the module-level base path of the tools     *)
(***************************************************************************)

\* Tool calls of a run that the model follows
MaxToolCalls == 2

RunIds == {1, 2}

\* The repo_path each run is started with, resolved
RepoPath(r) == IF r = 1 THEN "/a" ELSE "/b"

\* A run the process has not started
NewRun == [pc |-> "new", repo_path |-> "", tool_calls |-> 0, root |-> "none"]

\* The run r after create_initial_state: its AgentState holds repo_path
Created(r) == [pc |-> "running", repo_path |-> RepoPath(r), tool_calls |-> 0, root |-> "none"]

\* set_base_path(path): global ALLOWED_BASE_PATH; ALLOWED_BASE_PATH = resolved
set_base_path(path) == ALLOWED_BASE_PATH' = path

\* create_initial_state(task, repo_path) of the run r
create_initial_state(r) ==
    /\ runs[r].pc = "new"
    /\ set_base_path(RepoPath(r))
    /\ runs' = [runs EXCEPT ![r] = Created(r)]
    /\ UNCHANGED <<run_vars, hitl_vars>>

\* _safe_path(raw) in a tool that a step of the run r calls: the path is
\* resolved under the module's ALLOWED_BASE_PATH; root is where the tool works
safe_path(r) ==
    /\ runs[r].pc = "running"
    /\ runs[r].tool_calls < MaxToolCalls
    /\ runs' = [runs EXCEPT ![r].root = ALLOWED_BASE_PATH,
                            ![r].tool_calls = runs[r].tool_calls + 1]
    /\ UNCHANGED <<ALLOWED_BASE_PATH, run_vars, hitl_vars>>

\* graph.stream of the run r is exhausted
run_ends(r) ==
    /\ runs[r].pc = "running"
    /\ runs' = [runs EXCEPT ![r].pc = "done"]
    /\ UNCHANGED <<ALLOWED_BASE_PATH, run_vars, hitl_vars>>

(***************************************************************************)
(* Human in the loop: interrupt_before and resume_with_feedback            *)
(***************************************************************************)

\* interrupt_before: the stream stops before a pending node that is listed
NotInterrupted == node \notin interrupts

\* The Run State the driving graph's MemorySaver holds: the checkpoint
\* written after the last step
Snapshot ==
    [node |-> node, task |-> task, plan |-> plan, next_agent |-> next_agent,
     current_instruction |-> current_instruction, iteration |-> iteration,
     routing_history |-> routing_history, agent_outputs |-> agent_outputs,
     artifacts |-> artifacts, messages |-> messages]

\* What the human types at "Feedback:" ("" after a plain "n")
Feedbacks == {JStr(<<>>), JStr(<<"use only utils.py">>)}

\* resume_with_feedback(thread_id, approved, feedback), called once the first
\* stream has ended.  build_graph(human_in_the_loop=True) compiles a new graph
\* over a new MemorySaver(), which holds no checkpoint of the thread: its
\* channels are empty (the reducer channels hold [], state.get gives the
\* defaults).  update_state on a thread without checkpoint either raises
\* InvalidUpdateError or writes the two values as the graph's input, after
\* which graph.stream(None, config) runs the entry point.
resume_with_feedback(approved, feedback) ==
    /\ interrupts # {}
    /\ node \in interrupts \cup {"END"}
    /\ paused' = <<Snapshot>>
    /\ interrupts' = {"developer"}
    /\ task' = JStr(<<>>)
    /\ plan' = JStr(<<>>)
    /\ next_agent' = ""
    /\ current_instruction' = JStr(<<>>)
    /\ iteration' = 0
    /\ routing_history' = <<>>
    /\ agent_outputs' = <<>>
    /\ artifacts' = <<>>
    /\ messages' = 0
    /\ \/ /\ node' = "RAISED"
          /\ exc' = "InvalidUpdateError"
          /\ UNCHANGED <<human_approved, human_feedback>>
       \/ /\ node' = "supervisor"
          /\ exc' = exc
          /\ human_approved' = JBool(approved)
          /\ human_feedback' = IF approved THEN JNull ELSE feedback
    /\ last' = "resume"
    /\ UNCHANGED <<calls, process_vars>>

\* The texts ROUTING_PROMPT.format interpolates: task, plan, the formatted
\* agent outputs, routing history and artifacts
PromptTexts ==
    {StrOf(task), StrOf(plan)}
    \cup { <<agent_outputs[i].agent, agent_outputs[i].output.text>> :
             i \in {j \in 1..Len(agent_outputs) : j > Len(agent_outputs) - 6} }
    \cup { <<routing_history[i].agent>> \o StrOf(routing_history[i].reason) :
             i \in {j \in 1..Len(routing_history) : j > Len(routing_history) - HistoryWindow} }
    \cup { <<k>> : k \in DOMAIN artifacts }

\* text in routing_prompt
PromptContains(text) ==
    \E t \in PromptTexts :
        \E i \in 0..(Len(t) - Len(text)) : SubSeq(t, i + 1, i + Len(text)) = text

(***************************************************************************)
(* The run                                                                 *)
(***************************************************************************)

\* The AgentState create_initial_state returns, written into the channels at
\* the graph's entry point
initial_state ==
    /\ node = "supervisor"
    /\ task = JStr(<<"task">>)
    /\ plan = JStr(<<>>)
    /\ next_agent = ""
    /\ current_instruction = JStr(<<>>)
    /\ iteration = 0
    /\ routing_history = <<>>
    /\ agent_outputs = <<>>
    /\ artifacts = <<>>
    /\ messages = 1
    /\ calls = 0
    /\ last = "init"
    /\ exc = "none"
    /\ human_approved = JNull
    /\ human_feedback = JNull
    /\ paused = <<>>

\* run_task: build_graph() without interrupts, create_initial_state, graph.stream
Init ==
    /\ initial_state
    /\ interrupts = {}
    /\ ALLOWED_BASE_PATH = RepoPath(1)
    /\ runs = [r \in RunIds |-> IF r = 1 THEN Created(1) ELSE NewRun]

Next ==
    \/ supervisor_llm_raises
    \/ supervisor_prompt_raises
    \/ \E raw \in PlanResponses : supervisor_planning(raw)
    \/ \E raw \in RouteResponses : supervisor_routing(raw)
    \/ \E o \in WorkerOutcomes : worker_node(o)

Spec == Init /\ [][Next]_vars

\* One run in which the supervisor keeps dispatching and the workers return
\* every report: the artifacts mapping takes every value the merges can give.
FirstDispatches ==
    { <<Obj(Planning(JStr(<<w>>), JStr(<<"P1">>), JStr(<<"instruction">>)))>> : w \in Workers }
NextDispatch == <<Obj(Decision(JStr(<<"qa">>), Reason, JNull))>>

NextReports ==
    \/ \E raw \in FirstDispatches : supervisor_planning(raw)
    \/ supervisor_routing(NextDispatch)
    \/ \E o \in ReportOutcomes : worker_node(o)
    \/ worker_node(AgentRaised)
    \/ stub_node

SpecReports == Init /\ [][NextReports]_vars

\* run_with_hitl: build_graph(human_in_the_loop=True), create_initial_state,
\* graph.stream, the human's answer, resume_with_feedback
InitHITL ==
    /\ initial_state
    /\ interrupts = {"developer"}
    /\ ALLOWED_BASE_PATH = RepoPath(1)
    /\ runs = [r \in RunIds |-> IF r = 1 THEN Created(1) ELSE NewRun]

HitlPlanResponses ==
    { <<Obj(Planning(JStr(<<w>>), JStr(<<"P1">>), JStr(<<"instruction">>)))>> :
        w \in {"developer", "qa"} }

HitlRouteResponses ==
    { <<Obj(Decision(JStr(<<"developer">>), Reason, JNull))>>,
      <<Obj(Decision(JStr(<<"qa">>), JNull, JAbsent))>>,
      <<Obj(Decision(JStr(<<"FINISH">>), Reason, JNull))>> }

NextHITL ==
    \/ supervisor_llm_raises
    \/ supervisor_prompt_raises
    \/ \E raw \in HitlPlanResponses : supervisor_planning(raw)
    \/ \E raw \in HitlRouteResponses : supervisor_routing(raw)
    \/ \E o \in WorkerOutcomes : NotInterrupted /\ worker_node(o)
    \/ \E approved \in BOOLEAN, feedback \in Feedbacks :
          resume_with_feedback(approved, feedback)

SpecHITL == InitHITL /\ [][NextHITL]_vars

\* The process before any run is created
InitProcess ==
    /\ initial_state
    /\ interrupts = {}
    /\ ALLOWED_BASE_PATH = "cwd"
    /\ runs = [r \in RunIds |-> NewRun]

\* Runs created and stepped in any order, as two stream_task generators consumed
\* in turn (or two threads) do
NextProcess ==
    \/ \E r \in RunIds : create_initial_state(r)
    \/ \E r \in RunIds : safe_path(r)
    \/ \E r \in RunIds : run_ends(r)

SpecProcess == InitProcess /\ [][NextProcess]_vars

(***************************************************************************)
(* Properties                                                              *)
(***************************************************************************)

LastEntry == routing_history[Len(routing_history)]

\* C1: after every supervisor step that returns, planning or routing,
\* next_agent is one of developer, qa, reviewer, devops, docs, FINISH and the
\* node the conditional edge selects is END or a worker; a worker is only ever
\* dispatched because next_agent names it.
C1_NextAgentInDomain ==
    /\ last \in {"planning", "routing"} =>
           next_agent \in VALID_AGENTS /\ node \in Workers \cup {"END"}
    /\ node \in Workers => node = next_agent

\* A routing response that named an unknown agent ended the run with FINISH.
C1_Witness ==
    /\ last = "routing"
    /\ next_agent = "FINISH"
    /\ node = "END"
    /\ LastEntry.reason = JStr(<<"ask the manager">>)

\* What supervisor_node branches on: the worker nodes write none of it.
Config == <<iteration, plan, routing_history>>

\* C2: every run terminates, by a terminal decision or by the ceiling, whatever
\* the responses.  Stated on finite runs: a supervisor step that dispatches a
\* worker leaves the counter, the plan or the history it branched on changed
\* (a step that leaves all three as it found them is taken again after the
\* worker, and on the same responses for ever), and a run at END has the
\* decision FINISH or the counter above the ceiling.
C2_Terminates ==
    /\ [][(node = "supervisor" /\ node' \in Workers) =>
              <<iteration', plan', routing_history'>> # Config]_vars
    /\ [][(node \in Workers) =>
              /\ node' = "supervisor"
              /\ <<iteration', plan', routing_history'>> = Config]_vars
    /\ [](node = "END" => (next_agent = "FINISH" \/ iteration > MAX_ITERATIONS))

\* C3: whenever a worker node is about to run, iteration <= MAX_ITERATIONS.
C3_NoDispatchPastCeiling == node \in Workers => iteration <= MAX_ITERATIONS

\* A worker is dispatched with the counter at the ceiling.
C3_Witness == node \in Workers /\ iteration = MAX_ITERATIONS /\ last = "routing"

\* The reason text says that the limit was reached
MentionsLimit(reason) ==
    reason.t = "str" /\ \E i \in 1..Len(reason.s) : reason.s[i] = "limite"

\* The response's decision, once parsed and sanitised, names a worker
NamesWorker(raw) ==
    \E r \in parse_json_response(raw) : r.kind = "ok" /\ r.data.next_agent.s[1] \in Workers

\* C4: a routing step taken with the counter at the ceiling on a response that
\* names a worker writes the terminal decision: next_agent and the agent of
\* the entry it appends are FINISH, and the entry's reason mentions the limit.
C4_CeilingOverride ==
    [][\A raw \in RouteResponses :
          (iteration >= MAX_ITERATIONS /\ NamesWorker(raw) /\ supervisor_routing(raw)) =>
              /\ next_agent' = "FINISH"
              /\ routing_history'[Len(routing_history')].agent = "FINISH"
              /\ MentionsLimit(routing_history'[Len(routing_history')].reason)]_vars

\* C5: iteration <= MAX_ITERATIONS + 1 in every reachable state.
C5_IterationBound == iteration <= MAX_ITERATIONS + 1

\* A run the ceiling stopped: the decision named a worker, the counter is one
\* above the ceiling.
C5_Witness ==
    node = "END" /\ iteration = MAX_ITERATIONS + 1 /\ next_agent \in Workers

\* C6: iteration starts at 0 and never decreases; every supervisor step that
\* returns a decision (planning or routing) strictly increases it; a worker
\* step leaves it unchanged.
C6_IterationIncreases ==
    /\ iteration = 0
    /\ [][/\ iteration' >= iteration
          /\ (calls' # calls /\ last' \in {"planning", "routing"}) => iteration' > iteration
          /\ last' = "worker" => iteration' = iteration]_vars

\* C7: the planning branch is taken by the first supervisor invocation of a
\* run and by no later one.
C7_PlanningOnce == last = "planning" => calls = 1

\* C8: no response text makes the parsing of the response raise out of the
\* supervisor step.
C8_ParseNeverRaises == exc # "AttributeError"

\* The response holds no JSON value at all
NoJson(raw) == \A i \in 1..Len(raw) : raw[i].k \in {"w", "fj", "f", "bad"}

\* C9: a routing step on a response without parseable JSON writes the decision
\* FINISH, appends the entry {iteration, FINISH, parse error reason} to
\* routing_history, and the run is at END; nothing runs after END.
C9_UnparseableRoutingEnds ==
    /\ [][\A raw \in RouteResponses :
             (NoJson(raw) /\ supervisor_routing(raw)) =>
                 /\ next_agent' = "FINISH"
                 /\ routing_history' = routing_history \o
                        << [iteration |-> iteration, agent |-> "FINISH",
                            reason |-> ParseErrorReason] >>
                 /\ node' = "END"]_vars
    /\ [][node = "END" => node' = "END"]_vars

\* The run ended on the parse-error decision.
C9_Witness ==
    /\ last = "routing"
    /\ node = "END"
    /\ next_agent = "FINISH"
    /\ LastEntry.agent = "FINISH"
    /\ LastEntry.reason = ParseErrorReason

\* C10: a failure of the completion call (make_llm or llm.invoke raising) does
\* not leave the run: the supervisor step substitutes a fallback.
C10_CompletionFailureCaught == exc # "completion call"

\* The entry a worker step records when its agent raised
ErrorEntry == [agent |-> node, output |-> ErrorOutput, status |-> "error",
               iteration |-> iteration]

\* C11: when the agent of a dispatched worker raises, no exception leaves the
\* loop, the worker step adds exactly one entry to agent_outputs, the entry
\* with status error and the message for that worker, and the supervisor
\* runs next; for each of the five workers.
C11_WorkerErrorRecordedOnce ==
    [][\A o \in WorkerOutcomes :
         (o.raised /\ worker_node(o)) =>
             /\ exc' = "none"
             /\ node' = "supervisor"
             /\ agent_outputs' = agent_outputs \o <<ErrorEntry>>]_vars

\* C12: agent_outputs is append-only with exactly one new entry per worker
\* step: a worker step leaves the previous sequence with one entry added at
\* its end, and a supervisor step, planning or routing, leaves it unchanged.
C12_AgentOutputsAppendOnly ==
    [][/\ (node \in Workers) =>
             /\ Len(agent_outputs') = Len(agent_outputs) + 1
             /\ SubSeq(agent_outputs', 1, Len(agent_outputs)) = agent_outputs
             /\ agent_outputs'[Len(agent_outputs')].agent = node
       /\ (node = "supervisor") => agent_outputs' = agent_outputs]_vars

\* The decisions of the run that named a worker: the planning decision and
\* the routing decisions whose agent is a worker
NonTerminalDecisions ==
    1 + Cardinality({i \in 1..Len(routing_history) : routing_history[i].agent \in Workers})

\* C13: when a run has ended, agent_outputs holds as many entries as the
\* supervisor made decisions that named a worker (the planning decision and
\* the routing decisions for a worker): one per dispatched worker, none for
\* the terminal step.
C13_OneOutputPerDecision ==
    (node = "END") => Len(agent_outputs) = NonTerminalDecisions

\* C14: every routing call that returns a decision, the terminal one
\* included, adds exactly one entry to routing_history and no other step
\* changes its length, so its length is the number of routing calls; and the
\* iteration values of its entries strictly increase from first to last.
C14_RoutingHistoryCountsCalls ==
    [][/\ (last' = "routing") =>
             /\ Len(routing_history') = Len(routing_history) + 1
             /\ routing_history'[Len(routing_history')].iteration = iteration
       /\ (last' # "routing") => Len(routing_history') = Len(routing_history)
       /\ \A i, j \in 1..Len(routing_history') :
             (i < j) => routing_history'[i].iteration < routing_history'[j].iteration]_vars

\* Two routing calls returned, the second with the terminal decision
C14_Witness ==
    /\ last = "routing"
    /\ node = "END"
    /\ Len(routing_history) = 2
    /\ LastEntry.agent = "FINISH"

\* C19: the run starts with the supervisor; a worker step is followed by the
\* supervisor; a supervisor step that returns is followed by one worker or by
\* END; nothing runs after END.  One node is pending at a time.
C19_StepsAlternate ==
    [][/\ (node \in Workers) => node' = "supervisor"
       /\ (node = "supervisor" /\ node' # "RAISED") => node' \in Workers \cup {"END"}
       /\ node \notin {"END", "RAISED"}
       /\ (last = "init") => node = "supervisor"]_vars

\* A worker has run between two supervisor steps and the supervisor is next
C19_Witness ==
    /\ node = "supervisor"
    /\ last = "worker"
    /\ Len(routing_history) = 1

\* Every key of the mapping a is in artifacts with the same value
AlreadyRecorded(a) == \A k \in DOMAIN a : k \in DOMAIN artifacts /\ artifacts[k] = a[k]

\* C20: merging artifacts through record_agent_output is idempotent: a worker
\* step that records artifacts whose keys are already in the mapping with the
\* same values leaves the content of artifacts unchanged, whatever the mapping
\* held before.
C20_MergeIdempotent ==
    [][\A o \in ReportOutcomes :
         (worker_node(o) /\ AlreadyRecorded(o.artifacts)) => artifacts' = artifacts]_vars

\* Two worker steps of the run returned the same report with artifacts in it
C20_Witness ==
    /\ last = "worker"
    /\ \E i \in 1..(Len(agent_outputs) - 1) :
         LET first  == agent_outputs[i]
             second == agent_outputs[Len(agent_outputs)]
         IN  /\ first.status = "success" /\ second.status = "success"
             /\ first.iteration < second.iteration
             /\ first.output = second.output
             /\ extract_artifacts(second.output) # <<>>

\* The run was paused before developer when resume_with_feedback was called
PausedBeforeDeveloper == paused # <<>> /\ paused[1].node = "developer"

\* C15: a run paused by the interrupt is resumed by its thread identifier:
\* resume_with_feedback continues from the snapshot persisted at the pause,
\* with the task, plan, iteration, routing_history, agent_outputs and
\* artifacts the paused run had.
C15_ResumeFromSnapshot ==
    (last = "resume" /\ PausedBeforeDeveloper) =>
        /\ exc = "none"
        /\ task = paused[1].task
        /\ plan = paused[1].plan
        /\ iteration = paused[1].iteration
        /\ routing_history = paused[1].routing_history
        /\ agent_outputs = paused[1].agent_outputs
        /\ artifacts = paused[1].artifacts

\* C16: after a pause before developer and a resume with approved = false and
\* a feedback text F, the routing prompt the supervisor builds next contains F
\* verbatim, and the decision then emitted carries an instruction that differs
\* from the one pending at the pause.
C16_FeedbackReachesSupervisor ==
    [][\A raw \in HitlRouteResponses :
         (/\ supervisor_routing(raw)
          /\ node' # "RAISED"
          /\ PausedBeforeDeveloper
          /\ human_approved = JBool(FALSE)
          /\ Truthy(human_feedback)) =>
             /\ PromptContains(human_feedback.s)
             /\ current_instruction' # paused[1].current_instruction]_vars

\* C17: with the interrupt enabled the run stops before every dispatch to
\* developer and developer runs only once a resume has approved the pending
\* dispatch; a resume with approved = false does not run the paused dispatch
\* and hands the pending decision back to the supervisor.
C17_DeveloperOnlyAfterApproval ==
    [][/\ (interrupts # {} /\ node = "developer" /\ last' = "worker") =>
             (paused # <<>> /\ human_approved = JBool(TRUE))
       /\ \A feedback \in Feedbacks :
             (node = "developer" /\ resume_with_feedback(FALSE, feedback)) =>
                 /\ node' = "supervisor"
                 /\ next_agent' = next_agent
                 /\ current_instruction' = current_instruction
                 /\ plan' = plan
                 /\ iteration' = iteration]_vars

\* C18: runs with different repo_path values are isolated: a step of one run
\* (its creation included) leaves unchanged what the steps of another running
\* run read, and the root the tools of a run work under is that run's own
\* repo_path.
C18_RunsIsolated ==
    [][\A r \in RunIds :
         /\ (runs[r].pc = "running" /\ runs'[r] = runs[r]) =>
                ALLOWED_BASE_PATH' = ALLOWED_BASE_PATH
         /\ runs'[r].root \in {"none", runs'[r].repo_path}]_vars

\* A developer report with status success and changed files is the newest
\* output and no qa output exists
UnverifiedChange ==
    /\ agent_outputs # <<>>
    /\ LET newest == agent_outputs[Len(agent_outputs)]
       IN  /\ newest.agent = "developer"
           /\ newest.status = "success"
           /\ "files_changed" \in DOMAIN extract_artifacts(newest.output)
    /\ \A i \in 1..Len(agent_outputs) : agent_outputs[i].agent # "qa"

\* C21: the supervisor never emits the terminal decision while a code change
\* is unverified: after a developer report with status success and a
\* files_changed artifact, with no qa output yet, the decision of the next
\* routing step is qa, whatever the model returns.
C21_QaBeforeFinish ==
    [][\A raw \in RouteResponses :
         (supervisor_routing(raw) /\ node' # "RAISED" /\ UnverifiedChange) =>
             next_agent' = "qa"]_vars

\* The first_agent of a planning response, trimmed and cut at the first pipe
FirstName(v) ==
    LET a == Strip(StrOf(v), Space)
    IN  IF \E i \in 1..Len(a) : a[i] = "|" THEN Strip(BeforePipe(a), Space) ELSE a

\* The planning response is unparseable, or its first_agent is missing, is
\* FINISH in any letter case, or is not the name of a worker
NoValidFirstAgent(raw) ==
    \A r \in parse_json_response(raw) :
        \/ r.kind = "ValueError"
        \/ /\ r.kind = "ok"
           /\ \/ r.data.first_agent.t \notin {"str", "null"}
              \/ FirstName(r.data.first_agent) \notin { <<w>> : w \in Workers }

C23_WorkerFrame ==
    [][(node \in Workers) =>
           /\ UNCHANGED <<task, plan, next_agent, current_instruction, iteration,
                          routing_history>>
           /\ \A r \in RunIds : runs'[r].repo_path = runs[r].repo_path]_vars

\* The stub has just run, after a worker whose agent raised
C23_Witness ==
    /\ last = "worker"
    /\ agent_outputs[Len(agent_outputs)].status = "warning"
    /\ \E i \in 1..Len(agent_outputs) : agent_outputs[i].status = "error"

\* What a worker outcome hands to record_agent_output as artifacts
ReportedArtifacts(o) == IF o.raised THEN <<>> ELSE o.artifacts

\* C24: record_agent_output shallow-merges the reported artifacts into the
\* state's artifacts: every reported key maps to the reported value afterwards,
\* every other key keeps its value, no key is removed by any step of the run,
\* and with no or empty artifacts the mapping is unchanged.
C24_ArtifactsMerge ==
    [][/\ \A o \in ReportOutcomes \cup {AgentRaised, NotImplemented} :
            worker_node(o) =>
                LET reported == ReportedArtifacts(o)
                IN  /\ DOMAIN artifacts' = DOMAIN artifacts \cup DOMAIN reported
                    /\ \A k \in DOMAIN reported : artifacts'[k] = reported[k]
                    /\ \A k \in DOMAIN artifacts \ DOMAIN reported :
                            artifacts'[k] = artifacts[k]
                    /\ (DOMAIN reported = {}) => artifacts' = artifacts
       /\ DOMAIN artifacts \subseteq DOMAIN artifacts'
       /\ stub_node => artifacts' = artifacts]_vars

\* Two reports collided on files_changed and the later one won, while a key
\* only the earlier one reported is still there
C24_Witness ==
    /\ last = "worker"
    /\ Len(agent_outputs) > 1
    /\ agent_outputs[1].output.files = <<"a.py">>
    /\ agent_outputs[1].output.commit = "fix(a): x"
    /\ agent_outputs[Len(agent_outputs)].output.files = <<"b.py">>
    /\ agent_outputs[Len(agent_outputs)].output.commit = ""
    /\ artifacts = [files_changed |-> <<"b.py">>, commit_message |-> "fix(a): x"]

\* The decisions the routing branch makes of each response: the parsed object,
\* or the fallback when the parser raises ValueError (none when data.get raises)
RouteOutcomes ==
    { [raw |-> raw,
       decisions |-> { IF r.kind = "ValueError" THEN RoutingFallback ELSE r.data :
                         r \in { x \in parse_json_response(raw) : x.kind # "AttributeError" } }] :
        raw \in RouteResponses }

\* The step is a routing step on the response e.raw that returned a decision
\* (the first two conjuncts follow from the other two and are there to be
\* evaluated first)
RoutingStepOn(e) ==
    /\ node = "supervisor" /\ last' = "routing"
    /\ \E d \in e.decisions : next_agent' = Get(d, "next_agent", JStr(<<"FINISH">>)).s[1]
    /\ supervisor_routing(e.raw)
    /\ node' # "RAISED"

\* C25 as stated: a routing step overwrites plan with the decision's
\* plan_update exactly when plan_update is not null, for every non-null value,
\* and leaves plan unchanged when plan_update is null or absent.
C25_OverwriteOnNonNull ==
    [][\A e \in RouteOutcomes :
         RoutingStepOn(e) =>
             \A d \in e.decisions :
                 LET plan_update == Get(d, "plan_update", JNull)
                 IN  plan' = IF plan_update.t # "null" THEN plan_update ELSE plan]_vars

\* C25 amended: a routing step overwrites plan with the decision's plan_update
\* exactly when plan_update is truthy; when it is null, absent or an empty
\* value such as the empty string, plan is left unchanged.
C25_OverwriteOnTruthy ==
    [][\A e \in RouteOutcomes :
         RoutingStepOn(e) =>
             \A d \in e.decisions :
                 LET plan_update == Get(d, "plan_update", JNull)
                 IN  /\ Truthy(plan_update) => plan' = plan_update
                     /\ ~Truthy(plan_update) => plan' = plan]_vars

\* A routing step has replaced the plan of the planning step
C25_Witness ==
    /\ last = "routing"
    /\ plan = JStr(<<"P2">>)
    /\ routing_history[1].agent \in Workers

\* The text each of the four strategies finds in the response itself, in the
\* order the parser's comments number them (<<>> when the pattern has no match)
StrategyTexts(raw) ==
    << IF JsonFenceAt(raw) # {} THEN FenceBody(raw, Min(JsonFenceAt(raw))) ELSE <<>>,
       IF AnyFenceAt(raw) # {} THEN FenceBody(raw, Min(AnyFenceAt(raw))) ELSE <<>>,
       IF BraceAt(raw) # {} THEN <<raw[Min(BraceAt(raw))]>> ELSE <<>>,
       GreedyText(raw) >>

ParsesAsObject(text) == Loads(text) /\ text[1].k = "obj"

\* The object of the first strategy whose text parses as a JSON object, if any
FirstParsing(raw) ==
    LET texts == StrategyTexts(raw)
        ok    == {i \in 1..4 : ParsesAsObject(texts[i])}
    IN  IF ok = {} THEN {} ELSE {texts[Min(ok)][1]}

\* C26: the parser tries the four strategies in order on the response and the
\* decision of a routing step is read from the first strategy whose text parses
\* as a JSON object, a strategy that matches without parsing not stopping the
\* later ones; the safe-terminal decision is returned only when none of the
\* four yields parseable JSON.
C26_FirstParsingStrategyWins ==
    [][\A e \in RouteOutcomes :
         RoutingStepOn(e) =>
             LET found  == FirstParsing(e.raw)
                 reason == routing_history'[Len(routing_history')].reason
             IN  /\ \A o \in found :
                        /\ next_agent' \in sanitize_next_agent(Get(o.d, "next_agent", JStr(<<>>)))
                        /\ current_instruction' = Get(o.d, "instruction", JStr(<<>>))
                        /\ reason = Get(o.d, "reason", JStr(<<>>))
                 /\ (reason = ParseErrorReason) => found = {}]_vars


\* C29: the sanitised next_agent is a function of the response text alone: every
\* routing step on a response ends with the same next_agent, also when the raw
\* value is not an exact name and holds more than one worker name.
C29_SanitizedAgentDetermined ==
    [][\A e \in RouteOutcomes :
         RoutingStepOn(e) =>
             \A d \in e.decisions :
                 next_agent' = Get(d, "next_agent", JStr(<<"FINISH">>)).s[1]]_vars

\* The sequence old is a prefix of the sequence new
IsPrefix(old, new) ==
    /\ Len(old) <= Len(new)
    /\ SubSeq(new, 1, Len(old)) = old

\* C27: routing_history is append-only across every step of a run, planning,
\* routing or worker: the routing_history before the step is a prefix of the
\* one after it, so no recorded entry is ever removed or modified.
C27_RoutingHistoryAppendOnly ==
    [][IsPrefix(routing_history, routing_history')]_vars

\* A worker has run between two recorded decisions and both entries are there
C27_Witness ==
    /\ Len(routing_history) = 2
    /\ routing_history[1].iteration = 1
    /\ routing_history[2].iteration = 2
    /\ routing_history[1].agent \in Workers
    /\ agent_outputs # <<>>

\* C28: whenever routing_history is non-empty, the agent of its last entry is
\* next_agent and the iteration of its last entry is iteration - 1; a run has
\* ended by a terminal decision exactly when the last entry's agent is FINISH.
C28_LastEntryIsDecision ==
    /\ (routing_history # <<>>) =>
           /\ LastEntry.agent = next_agent
           /\ LastEntry.iteration = iteration - 1
    /\ (node = "END" /\ next_agent = "FINISH")
           <=> (routing_history # <<>> /\ LastEntry.agent = "FINISH")

\* A worker named by the last entry has run and the supervisor is next
C28_Witness ==
    /\ node = "supervisor"
    /\ last = "worker"
    /\ routing_history # <<>>
    /\ LastEntry.agent = "qa"
    /\ LastEntry.iteration = 1
    /\ iteration = 2

\* C30: once plan is non-empty it stays non-empty: no step replaces a non-empty
\* plan by an empty value, so after it the supervisor never takes the planning
\* branch again and never resets iteration or routing_history.
C30_PlanStaysNonEmpty ==
    [][Truthy(plan) =>
           /\ Truthy(plan')
           /\ last' # "planning"
           /\ iteration' >= iteration
           /\ IsPrefix(routing_history, routing_history')]_vars

\* A routing step whose decision held no plan update has kept the plan of the
\* planning step
C30_Witness ==
    /\ last = "routing"
    /\ plan = JStr(<<"P1">>)
    /\ LastEntry.reason = JNull
    /\ iteration = 2

====
